---- MODULE Spec2Model ----
(***************************************************************************)
(* The gas mixture pool of crates/auxmos/src/gas.rs: the arena             *)
(* GAS_MIXTURES (a Vec of per-slot RwLocks behind one structural RwLock),  *)
(* the free-list channel NEXT_GAS_IDS, the main thread's tracker           *)
(* REGISTERED_GAS_MIXES, the grower tasks register_mix spawns on the rayon *)
(* pool, and the with_gas_mixture* accessors run by worker threads.        *)
(***************************************************************************)
EXTENDS Integers, Sequences, FiniteSets, TLC

\* ------------------------------------------------------------------ sizes

\* Host datum identifiers are 1..NumIds.
NumIds == 2
\* The arena is kept to MaxLen slots: a registration that would append, and
\* a grower task that would go on to append, start only while there is room.
MaxLen == 6
\* At most MaxGrowers spawned grower tasks are in flight at once.
MaxGrowers == 2

\* crossbeam_channel::bounded(2000), scaled down.
ChanCap == 3
\* The grower's margin below the channel capacity (100), scaled down.
Margin == 1
\* Vec::with_capacity(240_000), scaled down.
ArenaCap == 4

Ids == 1..NumIds
\* The initial_volume the host objects carry.
Vols == {5}
\* The worker threads running accessors.
Workers == {1, 2}
\* The main (control) thread, as a holder of the structural lock.
Main == 0

\* ---------------------------------------------------------------- payload

\* Mixture::from_vol: a fresh mixture of the given volume, holding no gas.
from_vol(v) == [vol |-> v, gas |-> 0]

\* Mixture::clear_with_vol: reset in place to the given volume, no gas.
clear_with_vol(m, v) == [m EXCEPT !.vol = v, !.gas = 0]

\* Mixture::default(): what resize_with(.., Default::default) appends.
DefaultMixture == [vol |-> 0, gas |-> 0]

\* What a callback can leave in a mixture's gas field.
GasVals == {0, 1}

\* ------------------------------------------------------------------ state

VARIABLES
    gas_mixtures,   \* GAS_MIXTURES' Option<Vec<..>>: {} is None, {vec} is Some(vec)
    capacity,       \* the Vec's capacity()
    structWriter,   \* who holds GAS_MIXTURES.write(): "none", "main", "grower"
    structReaders,  \* threads holding a GAS_MIXTURES.read() guard
    chan,           \* NEXT_GAS_IDS: the handles queued in the bounded channel
    registered,     \* REGISTERED_GAS_MIXES: {} is None, {set} is Some(set)
    field,          \* field[i]: _extools_pointer_gasmixture of host datum i
    main,           \* the main thread: where it is in register/unregister/shutdown
    ret,            \* what the main thread's last finished call did
    spawned,        \* grower tasks spawned on the rayon pool, not yet started
    waiting,        \* grower tasks past the is_empty check, at GAS_MIXTURES.write()
    grow,           \* the grower task holding the structural write lock, if any
    wk              \* wk[w]: the accessor call worker w is in

vars == <<gas_mixtures, capacity, structWriter, structReaders, chan, registered,
          field, main, ret, spawned, waiting, grow, wk>>

\* Option::unwrap
Unwrap(opt) == CHOOSE v \in opt : TRUE

mixtures == Unwrap(gas_mixtures)

\* gas_mixtures.len(), 0 while GAS_MIXTURES is None
ArenaLen == IF gas_mixtures = {} THEN 0 ELSE Len(mixtures)

Max(a, b) == IF a >= b THEN a ELSE b
Min(a, b) == IF a <= b THEN a ELSE b

IdleMain == [pc |-> "idle", id |-> 0, vol |-> 0, isnum |-> TRUE, idx |-> 0]
NoGrow == [active |-> FALSE, next |-> 0, end |-> 0]
\* What the last finished call of the main thread did; a no-op
\* unregistration records its identifier, the other calls record 0.
Ret(op, i) == [op |-> op, id |-> i]
NoWorker(res) == [pc |-> "idle", op |-> "none", src |-> 0, arg |-> 0, m1 |-> "r",
                  m2 |-> "r", held |-> <<>>, copy |-> DefaultMixture, res |-> res]
IdleWorker == NoWorker("none")

\* The statics as constructed: GAS_MIXTURES = None, the channel empty, the
\* tracker None, no host object carrying a handle.
Init ==
    /\ gas_mixtures = {}
    /\ capacity = 0
    /\ structWriter = "none"
    /\ structReaders = {}
    /\ chan = <<>>
    /\ registered = {}
    /\ field = [i \in Ids |-> 0]
    /\ main = IdleMain
    /\ ret = Ret("none", 0)
    /\ spawned = 0
    /\ waiting = 0
    /\ grow = NoGrow
    /\ wk = [w \in Workers |-> IdleWorker]

\* --------------------------------------------------------------- tracker

\* A lookup that answers true whatever the tracker holds.
is_registered_mix_always(i) == i \in Ids

\* A lookup that answers true when the tracker is None (unwrap_or(true)).
is_registered_mix_none_true(i) == registered = {} \/ \E s \in registered : i \in s

\* is_registered_mix: None answers false.
is_registered_mix(i) == \E s \in registered : i \in s

\* An insert that leaves the tracker as it was.
tracker_insert_skipped(i) == registered

\* register_mix (the free function): insert into the tracker, which must be Some.
tracker_insert(i) == {Unwrap(registered) \cup {i}}

\* A removal that leaves the identifier in the tracker.
tracker_remove_kept(i) == registered

\* unregister_mix (the free function): remove from the tracker; None stays None.
tracker_remove(i) == {s \ {i} : s \in registered}

\* The identifiers now registered.
RegisteredIds == {i \in Ids : is_registered_mix(i)}

\* ---------------------------------------------------------------- locks

\* The content guards worker w holds on slot h (0-based handle).
HeldOn(w, h) == {k \in 1..Len(wk[w].held) : wk[w].held[k].slot = h}
SlotWriters(h) == {w \in Workers : \E k \in HeldOn(w, h) : wk[w].held[k].mode = "w"}
SlotReaders(h) == {w \in Workers : \E k \in HeldOn(w, h) : wk[w].held[k].mode = "r"}

\* RwLock::read() / write() return at once when the lock is free of
\* conflicting guards. (parking_lot also holds a new reader back while a
\* writer is parked on the lock; that wait is not modelled, so a reader here
\* waits for writers that hold the lock only.)
CanRead(h) == SlotWriters(h) = {}
CanWrite(h) == SlotWriters(h) = {} /\ SlotReaders(h) = {}
CanLock(h, mode) == IF mode = "w" THEN CanWrite(h) ELSE CanRead(h)

StructCanRead == structWriter = "none"
StructCanWrite == structWriter = "none" /\ structReaders = {}

\* -------------------------------------------------------------- lifecycle

Running == gas_mixtures # {} /\ registered # {}

\* _initialize_gas_mixtures
initialize_gas_mixtures ==
    /\ gas_mixtures = {} /\ registered = {}
    /\ main.pc = "idle"
    /\ gas_mixtures' = {<<>>}
    /\ capacity' = ArenaCap
    /\ registered' = {{}}
    /\ ret' = Ret("init", 0)
    /\ UNCHANGED <<structWriter, structReaders, chan, field, main, spawned,
                   waiting, grow, wk>>

\* ------------------------------------------------------------ registration

\* The grower's batch: NEXT_GAS_IDS.1.capacity().unwrap() - 100
Batch == ChanCap - Margin

GrowersInFlight == spawned + waiting + (IF grow.active THEN 1 ELSE 0)

\* What the grower tasks past their is_empty check will still append, at most.
CommittedGrowth ==
    waiting * Batch + (IF grow.active THEN grow.end - ArenaLen ELSE 0)

\* Vec growth past its capacity: amortized doubling.
GrownCapacity(cap, need) == IF need <= cap THEN cap ELSE Max(2 * cap, need)

\* A receive that leaves the handle queued.
ChanPeek(c) == [val |-> Head(c), rest |-> c]

\* NEXT_GAS_IDS.1.recv() on a channel that holds a handle: the oldest handle
\* and what stays queued.
ChanRecv(c) == [val |-> Head(c), rest |-> Tail(c)]

\* GasArena::register_mix, the is_empty test and, when the channel holds a
\* handle, the recv. Only the main thread receives, so a handle seen is
\* still there for the recv. The host registers a datum once, from its
\* constructor: i is an identifier no live datum holds.
register_mix_begin(i, v, isnum) ==
    /\ Running /\ main.pc = "idle"
    /\ i \notin UNION registered
    /\ GrowersInFlight < MaxGrowers
    /\ chan = <<>> => ArenaLen + CommittedGrowth + 1 <= MaxLen
    /\ IF chan = <<>>
         THEN /\ main' = [pc |-> "slow", id |-> i, vol |-> v, isnum |-> isnum, idx |-> 0]
              /\ chan' = chan
         ELSE /\ main' = [pc |-> "fast_read", id |-> i, vol |-> v, isnum |-> isnum,
                          idx |-> ChanRecv(chan).val]
              /\ chan' = ChanRecv(chan).rest
    /\ UNCHANGED <<gas_mixtures, capacity, structWriter, structReaders, registered,
                   field, ret, spawned, waiting, grow, wk>>

\* The length read after the push.
next_idx_after_push == ArenaLen + 1

\* let next_idx = gas_mixtures.len(), under the write lock and before the push
next_idx == ArenaLen

\* The slow path: under GAS_MIXTURES.write(), next_idx = len and one push;
\* then the handle is stored on the host object, the identifier enters the
\* tracker and a grower task is spawned. A volume that is no number returns
\* the error before the push.
register_mix_slow ==
    /\ main.pc = "slow"
    /\ StructCanWrite
    /\ IF main.isnum
         THEN /\ gas_mixtures' = {Append(mixtures, from_vol(main.vol))}
              /\ capacity' = GrownCapacity(capacity, ArenaLen + 1)
              /\ field' = [field EXCEPT ![main.id] = next_idx]
              /\ registered' = tracker_insert(main.id)
              /\ spawned' = spawned + 1
              /\ ret' = Ret("registered_slow", 0)
         ELSE /\ UNCHANGED <<gas_mixtures, capacity, field, registered, spawned>>
              /\ ret' = Ret("register_failed", 0)
    /\ main' = IdleMain
    /\ UNCHANGED <<structWriter, structReaders, chan, waiting, grow, wk>>

\* The fast path, GAS_MIXTURES.read() and .get(idx).unwrap() on the handle
\* received: a handle past the end panics.
register_mix_fast_read ==
    /\ main.pc = "fast_read"
    /\ StructCanRead
    /\ structReaders' = structReaders \cup {Main}
    /\ main' = [main EXCEPT !.pc = IF main.idx < ArenaLen THEN "fast_write" ELSE "panic"]
    /\ UNCHANGED <<gas_mixtures, capacity, structWriter, chan, registered, field,
                   ret, spawned, waiting, grow, wk>>

\* The fast path, the slot's write() and clear_with_vol; then as the slow
\* path. A volume that is no number returns the error with the handle
\* already received.
register_mix_fast_write ==
    /\ main.pc = "fast_write"
    /\ CanWrite(main.idx)
    /\ IF main.isnum
         THEN /\ gas_mixtures' =
                    {[mixtures EXCEPT ![main.idx + 1] = clear_with_vol(@, main.vol)]}
              /\ field' = [field EXCEPT ![main.id] = main.idx]
              /\ registered' = tracker_insert(main.id)
              /\ spawned' = spawned + 1
              /\ ret' = Ret("registered_fast", 0)
         ELSE /\ UNCHANGED <<gas_mixtures, field, registered, spawned>>
              /\ ret' = Ret("register_failed", 0)
    /\ structReaders' = structReaders \ {Main}
    /\ main' = IdleMain
    /\ UNCHANGED <<capacity, structWriter, chan, waiting, grow, wk>>

\* ------------------------------------------------------------- the grower

\* The spawned closure starts: if NEXT_GAS_IDS.1.is_empty() it goes on to
\* GAS_MIXTURES.write(), otherwise it ends.
grower_check ==
    /\ spawned > 0
    /\ chan = <<>> =>
          ArenaLen + CommittedGrowth + Batch + (IF main.pc = "slow" THEN 1 ELSE 0) <= MaxLen
    /\ spawned' = spawned - 1
    /\ waiting' = IF chan = <<>> THEN waiting + 1 ELSE waiting
    /\ UNCHANGED <<gas_mixtures, capacity, structWriter, structReaders, chan,
                   registered, field, main, ret, grow, wk>>

\* The growth amount `cap` computed under the write lock.
GrowAmount(len, vcap) ==
    LET to_cap == vcap - len
    IN IF to_cap = 0 THEN Batch ELSE Min(Batch, to_cap)

\* GAS_MIXTURES.write() is acquired: cur_last and cap are computed.
grower_lock ==
    /\ waiting > 0
    /\ StructCanWrite /\ gas_mixtures # {}
    /\ waiting' = waiting - 1
    /\ structWriter' = "grower"
    /\ grow' = [active |-> TRUE, next |-> ArenaLen,
                end |-> ArenaLen + GrowAmount(ArenaLen, capacity)]
    /\ UNCHANGED <<gas_mixtures, capacity, structReaders, chan, registered, field,
                   main, ret, spawned, wk>>

\* One NEXT_GAS_IDS.0.send(i) of the loop; send blocks while the channel is full.
grower_send ==
    /\ grow.active /\ grow.next < grow.end
    /\ Len(chan) < ChanCap
    /\ chan' = Append(chan, grow.next)
    /\ grow' = [grow EXCEPT !.next = @ + 1]
    /\ UNCHANGED <<gas_mixtures, capacity, structWriter, structReaders, registered,
                   field, main, ret, spawned, waiting, wk>>

\* gas_mixtures.resize_with(cur_last + cap, Default::default); the write
\* guard drops as the closure ends.
grower_resize ==
    /\ grow.active /\ grow.next = grow.end
    /\ gas_mixtures' =
          {mixtures \o [k \in 1..(grow.end - ArenaLen) |-> DefaultMixture]}
    /\ capacity' = GrownCapacity(capacity, grow.end)
    /\ structWriter' = "none"
    /\ grow' = NoGrow
    /\ UNCHANGED <<structReaders, chan, registered, field, main, ret, spawned,
                   waiting, wk>>

\* ----------------------------------------------------------- unregistration

\* GasArena::unregister_mix up to the send: an identifier the tracker does
\* not hold (or a tracker that is None) makes the call a no-op; otherwise
\* the handle is read back from the host object.
unregister_mix_begin(i) ==
    /\ main.pc = "idle"
    /\ IF is_registered_mix(i)
         THEN /\ main' = [pc |-> "send", id |-> i, vol |-> 0, isnum |-> TRUE,
                          idx |-> field[i]]
              /\ ret' = ret
         ELSE /\ main' = main
              /\ ret' = Ret("unregister_noop", i)
    /\ UNCHANGED <<gas_mixtures, capacity, structWriter, structReaders, chan,
                   registered, field, spawned, waiting, grow, wk>>

\* NEXT_GAS_IDS.0.send(idx), which blocks while the channel is full, then
\* the identifier leaves the tracker.
unregister_mix_send ==
    /\ main.pc = "send"
    /\ Len(chan) < ChanCap
    /\ chan' = Append(chan, main.idx)
    /\ registered' = tracker_remove(main.id)
    /\ main' = IdleMain
    /\ ret' = Ret("unregistered", 0)
    /\ UNCHANGED <<gas_mixtures, capacity, structWriter, structReaders, field,
                   spawned, waiting, grow, wk>>

\* ----------------------------------------------------------------- shutdown

\* crate::turfs::wait_for_tasks(): returns once no grower task and no worker
\* task is outstanding.
wait_for_tasks == GrowersInFlight = 0 /\ \A w \in Workers : wk[w].pc = "idle"

\* A clear that leaves the vector as it was.
clear_kept(vec) == vec

\* Vec::clear
clear(vec) == <<>>

\* _shut_down_gases: wait_for_tasks(), then the arena is cleared under the
\* structural write lock.
shut_down_clear ==
    /\ Running /\ main.pc = "idle"
    /\ wait_for_tasks
    /\ StructCanWrite
    /\ gas_mixtures' = {clear(mixtures)}
    /\ main' = [IdleMain EXCEPT !.pc = "drain"]
    /\ UNCHANGED <<capacity, structWriter, structReaders, chan, registered, field,
                   ret, spawned, waiting, grow, wk>>

\* A drain that receives nothing.
drain_none(c) == c

\* while !NEXT_GAS_IDS.1.is_empty() { recv() }: the channel once the loop ends
drain(c) == <<>>

\* _shut_down_gases: the channel is drained, then the tracker is set to None.
shut_down_drain ==
    /\ main.pc = "drain"
    /\ chan' = drain(chan)
    /\ registered' = {}
    /\ main' = IdleMain
    /\ ret' = Ret("shut_down", 0)
    /\ UNCHANGED <<gas_mixtures, capacity, structWriter, structReaders, field,
                   spawned, waiting, grow, wk>>

\* ---------------------------------------------------------------- accessors

\* Handles the workers pass to the accessors: 0..MaxHandle.
MaxHandle == 2

Handles == 0..MaxHandle

\* The accessors and the lock each takes on its first and second slot; the
\* custom accessor's callback picks the levels itself, one read and one
\* write (equal levels are what the other dual accessors give).
Calls ==
    {[op |-> "with_gas_mixture", m1 |-> "r", m2 |-> "r"],
     [op |-> "with_gas_mixture_mut", m1 |-> "w", m2 |-> "w"],
     [op |-> "with_gas_mixtures", m1 |-> "r", m2 |-> "r"],
     [op |-> "with_gas_mixtures_mut", m1 |-> "w", m2 |-> "w"]}
    \cup {[op |-> "with_gas_mixtures_custom", m1 |-> "r", m2 |-> "w"],
          [op |-> "with_gas_mixtures_custom", m1 |-> "w", m2 |-> "r"]}

\* gas_mixtures.get(h)
InRange(h) == h < ArenaLen
Slot(h) == mixtures[h + 1]

\* A return that keeps the guards the call holds.
ReturnedHolding(w, res) ==
    /\ wk' = [wk EXCEPT ![w].pc = "idle", ![w].res = res]
    /\ structReaders' = structReaders

\* An accessor returns: every guard it holds drops, the structural one too.
Returned(w, res) ==
    /\ wk' = [wk EXCEPT ![w] = NoWorker(res)]
    /\ structReaders' = structReaders \ {w}

\* Every accessor starts with `let lock = GAS_MIXTURES.read()`, a guard that
\* lives until the accessor returns.
accessor_call(w, c, src, arg) ==
    /\ wk[w].pc = "idle"
    /\ gas_mixtures # {}
    /\ StructCanRead
    /\ structReaders' = structReaders \cup {w}
    /\ wk' = [wk EXCEPT ![w] =
                [pc |-> "first", op |-> c.op, src |-> src,
                 arg |-> IF c.op \in {"with_gas_mixture", "with_gas_mixture_mut"}
                           THEN src ELSE arg,
                 m1 |-> c.m1, m2 |-> c.m2, held |-> <<>>, copy |-> DefaultMixture,
                 res |-> "none"]]
    /\ UNCHANGED <<gas_mixtures, capacity, structWriter, chan, registered, field,
                   main, ret, spawned, waiting, grow>>

\* with_gas_mixture / with_gas_mixture_mut: get(id), then the slot's read()
\* or write().
single_lock(w) ==
    /\ wk[w].pc = "first"
    /\ wk[w].op \in {"with_gas_mixture", "with_gas_mixture_mut"}
    /\ IF ~InRange(wk[w].src)
         THEN Returned(w, "not_found")
         ELSE /\ CanLock(wk[w].src, wk[w].m1)
              /\ wk' = [wk EXCEPT ![w].pc = "callback",
                                  ![w].held = <<[slot |-> wk[w].src, mode |-> wk[w].m1]>>]
              /\ structReaders' = structReaders
    /\ UNCHANGED <<gas_mixtures, capacity, structWriter, chan, registered, field,
                   main, ret, spawned, waiting, grow>>

\* with_gas_mixtures: get(src) and src's read().
mixtures_first(w) ==
    /\ wk[w].pc = "first"
    /\ wk[w].op = "with_gas_mixtures"
    /\ IF ~InRange(wk[w].src)
         THEN Returned(w, "not_found")
         ELSE /\ CanRead(wk[w].src)
              /\ wk' = [wk EXCEPT ![w].pc = "second",
                                  ![w].held = <<[slot |-> wk[w].src, mode |-> "r"]>>]
              /\ structReaders' = structReaders
    /\ UNCHANGED <<gas_mixtures, capacity, structWriter, chan, registered, field,
                   main, ret, spawned, waiting, grow>>

\* with_gas_mixtures: get(arg) and arg's read(), with src's guard held;
\* there is no test for src == arg.
mixtures_second(w) ==
    /\ wk[w].pc = "second"
    /\ wk[w].op = "with_gas_mixtures"
    /\ IF ~InRange(wk[w].arg)
         THEN Returned(w, "not_found")
         ELSE /\ CanRead(wk[w].arg)
              /\ wk' = [wk EXCEPT ![w].pc = "callback",
                                  ![w].held = Append(@, [slot |-> wk[w].arg, mode |-> "r"])]
              /\ structReaders' = structReaders
    /\ UNCHANGED <<gas_mixtures, capacity, structWriter, chan, registered, field,
                   main, ret, spawned, waiting, grow>>

\* with_gas_mixtures_mut: get(src) and src's write(); when src == arg the
\* second payload is a clone of the slot and no second lock is taken.
mixtures_mut_first(w) ==
    /\ wk[w].pc = "first"
    /\ wk[w].op = "with_gas_mixtures_mut"
    /\ IF ~InRange(wk[w].src)
         THEN Returned(w, "not_found")
         ELSE /\ CanWrite(wk[w].src)
              /\ wk' = [wk EXCEPT
                          ![w].pc = IF wk[w].src = wk[w].arg THEN "callback" ELSE "second",
                          ![w].held = <<[slot |-> wk[w].src, mode |-> "w"]>>,
                          ![w].copy = IF wk[w].src = wk[w].arg
                                        THEN Slot(wk[w].src) ELSE @]
              /\ structReaders' = structReaders
    /\ UNCHANGED <<gas_mixtures, capacity, structWriter, chan, registered, field,
                   main, ret, spawned, waiting, grow>>

\* with_gas_mixtures_mut, src != arg: get(arg) and arg's write(), with src's
\* write guard held.
mixtures_mut_second(w) ==
    /\ wk[w].pc = "second"
    /\ wk[w].op = "with_gas_mixtures_mut"
    /\ IF ~InRange(wk[w].arg)
         THEN Returned(w, "not_found")
         ELSE /\ CanWrite(wk[w].arg)
              /\ wk' = [wk EXCEPT ![w].pc = "callback",
                                  ![w].held = Append(@, [slot |-> wk[w].arg, mode |-> "w"])]
              /\ structReaders' = structReaders
    /\ UNCHANGED <<gas_mixtures, capacity, structWriter, chan, registered, field,
                   main, ret, spawned, waiting, grow>>

\* with_gas_mixtures_custom up to the call of f: both handles are resolved;
\* when src == arg the slot is read-locked for the clone alone and f gets
\* (the slot's lock, a fresh lock around the clone).
custom_resolve(w) ==
    /\ wk[w].pc = "first"
    /\ wk[w].op = "with_gas_mixtures_custom"
    /\ IF ~InRange(wk[w].src) \/ ~InRange(wk[w].arg)
         THEN Returned(w, "not_found")
         ELSE /\ wk[w].src = wk[w].arg => CanRead(wk[w].src)
              /\ wk' = [wk EXCEPT ![w].pc = "f_first",
                                  ![w].copy = IF wk[w].src = wk[w].arg
                                                THEN Slot(wk[w].src) ELSE @]
              /\ structReaders' = structReaders
    /\ UNCHANGED <<gas_mixtures, capacity, structWriter, chan, registered, field,
                   main, ret, spawned, waiting, grow>>

\* The custom callback locks the first lock it was given, at the level it
\* chose.
custom_first(w) ==
    /\ wk[w].pc = "f_first"
    /\ CanLock(wk[w].src, wk[w].m1)
    /\ wk' = [wk EXCEPT ![w].pc = "f_second",
                        ![w].held = <<[slot |-> wk[w].src, mode |-> wk[w].m1]>>]
    /\ UNCHANGED <<gas_mixtures, capacity, structWriter, structReaders, chan,
                   registered, field, main, ret, spawned, waiting, grow>>

\* The custom callback locks the second lock: arg's, or, when src == arg,
\* the fresh lock no other thread can see.
custom_second(w) ==
    /\ wk[w].pc = "f_second"
    /\ IF wk[w].src = wk[w].arg
         THEN wk' = [wk EXCEPT ![w].pc = "callback"]
         ELSE /\ CanLock(wk[w].arg, wk[w].m2)
              /\ wk' = [wk EXCEPT ![w].pc = "callback",
                                  ![w].held = Append(@, [slot |-> wk[w].arg, mode |-> wk[w].m2])]
    /\ UNCHANGED <<gas_mixtures, capacity, structWriter, structReaders, chan,
                   registered, field, main, ret, spawned, waiting, grow>>

\* Is the second payload of w's call a private copy of the first slot?
SecondIsCopy(w) ==
    /\ wk[w].op \in {"with_gas_mixtures_mut", "with_gas_mixtures_custom"}
    /\ wk[w].src = wk[w].arg

\* A callback whose second payload, when it is the copy, is the slot itself.
AfterCallbackAliased(w, g1, g2) ==
    LET c == wk[w]
        one == IF c.m1 = "w" THEN [mixtures EXCEPT ![c.src + 1].gas = g1] ELSE mixtures
    IN IF c.op \in {"with_gas_mixture", "with_gas_mixture_mut"}
         THEN one
         ELSE IF c.m2 = "w" THEN [one EXCEPT ![c.arg + 1].gas = g2] ELSE one

\* The arena after f has run in w's call: f leaves g1 in the first payload
\* and g2 in the second, wherever it holds them mutably. A copy as second
\* payload is dropped with the call.
AfterCallback(w, g1, g2) ==
    LET c == wk[w]
        one == IF c.m1 = "w" THEN [mixtures EXCEPT ![c.src + 1].gas = g1] ELSE mixtures
    IN IF c.op \in {"with_gas_mixture", "with_gas_mixture_mut"} \/ SecondIsCopy(w)
         THEN one
         ELSE IF c.m2 = "w" THEN [one EXCEPT ![c.arg + 1].gas = g2] ELSE one

\* f runs on the payloads and the accessor returns its result.
run_callback(w, g1, g2) ==
    /\ wk[w].pc = "callback"
    /\ gas_mixtures' = {AfterCallback(w, g1, g2)}
    /\ Returned(w, "ok")
    /\ UNCHANGED <<capacity, structWriter, chan, registered, field, main, ret,
                   spawned, waiting, grow>>

NextAccessors ==
    \/ \E w \in Workers, c \in Calls, src \in Handles, arg \in Handles :
          accessor_call(w, c, src, arg)
    \/ \E w \in Workers : single_lock(w)
    \/ \E w \in Workers : mixtures_first(w)
    \/ \E w \in Workers : mixtures_second(w)
    \/ \E w \in Workers : mixtures_mut_first(w)
    \/ \E w \in Workers : mixtures_mut_second(w)
    \/ \E w \in Workers : custom_resolve(w)
    \/ \E w \in Workers : custom_first(w)
    \/ \E w \in Workers : custom_second(w)
    \/ \E w \in Workers, g1 \in GasVals, g2 \in GasVals : run_callback(w, g1, g2)

\* --------------------------------------------------------- specification

\* The main thread and the grower tasks. The host objects registered here
\* carry a numeric initial_volume.
NextPool ==
    \/ initialize_gas_mixtures
    \/ \E i \in Ids, v \in Vols : register_mix_begin(i, v, TRUE)
    \/ register_mix_slow
    \/ register_mix_fast_read
    \/ register_mix_fast_write
    \/ grower_check
    \/ grower_lock
    \/ grower_send
    \/ grower_resize
    \/ \E i \in Ids : unregister_mix_begin(i)
    \/ unregister_mix_send
    \/ shut_down_clear
    \/ shut_down_drain

Spec == Init /\ [][NextPool]_vars

\* The pool after two registrations in a row on the slow path, their two
\* grower tasks spawned and not yet started: the state the worker threads
\* start from. SpecAccess follows the workers alone from there.
InitAccess ==
    /\ gas_mixtures = {<<from_vol(5), from_vol(5)>>}
    /\ capacity = ArenaCap
    /\ structWriter = "none"
    /\ structReaders = {}
    /\ chan = <<>>
    /\ registered = {{1, 2}}
    /\ field = [i \in Ids |-> i - 1]
    /\ main = IdleMain
    /\ ret = Ret("registered_slow", 0)
    /\ spawned = 2
    /\ waiting = 0
    /\ grow = NoGrow
    /\ wk = [w \in Workers |-> IdleWorker]

NextAccess == NextAccessors

SpecAccess == InitAccess /\ [][NextAccess]_vars

\* ------------------------------------------------------------------ claims

\* The handles queued in the channel.
Queued == {chan[k] : k \in 1..Len(chan)}

\* amt_gases: gas_mixtures.len() - NEXT_GAS_IDS.1.len(), an unsigned difference.
amt_gases == ArenaLen - Len(chan)

\* tot_gases
tot_gases == ArenaLen

\* amt_gases can be evaluated: GAS_MIXTURES is Some and read() returns.
CanObserve == gas_mixtures # {} /\ StructCanRead

DualOps == {"with_gas_mixtures", "with_gas_mixtures_mut"}

\* Worker w, holding its first slot's guard, is at its second slot's lock,
\* which it cannot get because of a guard worker v holds.
WaitsFor(w, v) ==
    /\ w # v
    /\ wk[w].pc = "second" /\ wk[w].op \in DualOps
    /\ wk[w].src # wk[w].arg
    /\ InRange(wk[w].arg)
    /\ \/ v \in SlotWriters(wk[w].arg)
       \/ wk[w].m2 = "w" /\ v \in SlotReaders(wk[w].arg)

\* C1: concurrent dual-slot calls on two distinct handles in crossed order
\* never deadlock: no two workers each hold the slot the other is waiting
\* for (a state neither call can leave, as a guard drops only on return).
C1_NoCrossedDeadlock ==
    ~\E w \in Workers, v \in Workers : WaitsFor(w, v) /\ WaitsFor(v, w)

\* The grower holding the structural write lock is blocked in send on a full
\* channel.
GrowerBlockedOnSend == grow.active /\ grow.next < grow.end /\ Len(chan) = ChanCap

\* The registered identifiers hold pairwise distinct handles.
DistinctHandles ==
    \A i \in RegisteredIds, j \in RegisteredIds : i # j => field[i] # field[j]

\* C2: registrations in rapid succession, with any number of grower tasks in
\* flight, never hang and give distinct handles: a register_mix call never
\* waits for the structural lock while its holder, a grower, waits for room
\* in the channel that only the main thread can make.
C2_RegisterNeverHangs ==
    /\ ~(main.pc \in {"slow", "fast_read"} /\ GrowerBlockedOnSend)
    /\ DistinctHandles

\* C3: the handle bound to a registered identifier is never in the channel.
C3_RegisteredNotQueued == \A i \in RegisteredIds : field[i] \notin Queued

C3_Witness ==
    /\ ret.op = "registered_fast" /\ RegisteredIds # {}
    /\ Queued # {}

\* C4: no handle is bound to two registered identifiers at once.
C4_NoDoubleIssue ==
    \A i \in RegisteredIds, j \in RegisteredIds : field[i] = field[j] => i = j

C4_Witness ==
    /\ ret.op = "registered_fast"
    /\ Cardinality(RegisteredIds) >= 2

\* C5: no accessor call holds two guards of one slot, and a dual-slot call on
\* distinct handles runs its callback holding exactly its two slots' guards.
C5_NoDoubleAcquire ==
    \A w \in Workers :
        /\ \A h \in Handles : Cardinality(HeldOn(w, h)) <= 1
        /\ (wk[w].pc = "callback" /\ wk[w].src # wk[w].arg) =>
              /\ Len(wk[w].held) = 2
              /\ {wk[w].held[k].slot : k \in 1..2} = {wk[w].src, wk[w].arg}

\* C6: unregister_mix on a registered identifier always completes: its send
\* never finds the channel full (only the main thread, which is sending,
\* receives).
C6_UnregisterCompletes == ~(main.pc = "send" /\ Len(chan) = ChanCap)

\* C7: unregister_mix on an identifier the tracker does not hold returns
\* at once and changes neither the channel, the arena nor the tracker; and
\* no handle is queued twice.
C7_UnregisterIdempotent ==
    /\ [][\A i \in Ids :
            (i \notin UNION registered /\ unregister_mix_begin(i)) =>
                /\ main'.pc = "idle"
                /\ UNCHANGED <<chan, gas_mixtures, registered>>]_vars
    /\ [](\A k \in 1..Len(chan), l \in 1..Len(chan) : chan[k] = chan[l] => k = l)

C7_Witness ==
    /\ Running
    /\ ret.op = "unregister_noop"
    /\ field[ret.id] \in Queued

\* C8: with the tracker None (after shutdown, before initialization) a
\* lookup answers false, and unregister_mix returns at once, sending nothing.
C8_AfterShutdown ==
    /\ [](registered = {} => \A i \in Ids : ~is_registered_mix(i))
    /\ [][\A i \in Ids :
            (registered = {} /\ unregister_mix_begin(i)) =>
                /\ main'.pc = "idle"
                /\ chan' = chan
                /\ ret'.op = "unregister_noop"]_vars

C8_Witness ==
    /\ gas_mixtures = {<<>>} /\ registered = {}
    /\ ret.op = "unregister_noop"
    /\ field[ret.id] > 0

\* Worker w is in with_gas_mixtures_mut(x, x, f).
AliasMut(w) == wk[w].op = "with_gas_mixtures_mut" /\ wk[w].src = wk[w].arg

\* C9: with_gas_mixtures_mut(x, x, f) calls f with the slot and a copy equal
\* to it, and after f the slot holds what f left in the first payload,
\* whatever it left in the second.
C9_AliasedMutClone ==
    /\ [](\A w \in Workers :
            (wk[w].pc = "callback" /\ AliasMut(w)) => wk[w].copy = Slot(wk[w].src))
    /\ [][\A w \in Workers, g1 \in GasVals, g2 \in GasVals :
            (AliasMut(w) /\ run_callback(w, g1, g2)) =>
                Unwrap(gas_mixtures')[wk[w].src + 1] =
                    [Slot(wk[w].src) EXCEPT !.gas = g1]]_vars

C9_Witness ==
    \E w \in Workers :
        /\ wk[w].pc = "callback" /\ AliasMut(w)
        /\ wk[w].copy.gas = 1

\* C10: wherever amt_gases can be evaluated the channel is no longer than
\* the arena, so the subtraction does not underflow.
C10_ActiveAtMostTotal == CanObserve => amt_gases >= 0 /\ amt_gases <= tot_gases

\* ------------------------------------------------- one identifier's session

\* The accessor steps of worker w.
WorkerStep(w) ==
    \/ \E c \in Calls, src \in Handles, arg \in Handles : accessor_call(w, c, src, arg)
    \/ single_lock(w)
    \/ mixtures_first(w)
    \/ mixtures_second(w)
    \/ mixtures_mut_first(w)
    \/ mixtures_mut_second(w)
    \/ custom_resolve(w)
    \/ custom_first(w)
    \/ custom_second(w)
    \/ \E g1 \in GasVals, g2 \in GasVals : run_callback(w, g1, g2)

\* The host creates a first datum (volume 5), deletes it and creates a second
\* one (volume 3), each call right after the one before returned, and then
\* the pool is shut down; the grower tasks of the registrations and one
\* worker thread run as they are scheduled.
NextSession ==
    \/ initialize_gas_mixtures
    \/ ret.op = "init" /\ register_mix_begin(1, 5, TRUE)
    \/ ret.op = "registered_slow" /\ unregister_mix_begin(1)
    \/ ret.op = "unregistered" /\ register_mix_begin(2, 3, TRUE)
    \/ register_mix_slow
    \/ register_mix_fast_read
    \/ register_mix_fast_write
    \/ unregister_mix_send
    \/ ret.op = "registered_fast" /\ shut_down_clear
    \/ shut_down_drain
    \/ grower_check
    \/ grower_lock
    \/ grower_send
    \/ grower_resize
    \/ WorkerStep(1)

SpecSession == Init /\ [][NextSession]_vars

\* C11: the registration that follows the first datum's registration (handle
\* 0) and unregistration is bound to handle 0 again, whether or not the first
\* registration's grower has published handles, and leaves the slot as built
\* from volume 3, with nothing of what the workers wrote for the first datum.
C11_ReusesHandleZero ==
    [][register_mix_fast_write =>
          /\ main.idx = 0
          /\ Unwrap(gas_mixtures')[main.idx + 1] = from_vol(3)]_vars

\* The slot the second registration is bound to is as built from volume 3,
\* whichever handle it received.
C11_ContentReset ==
    [][register_mix_fast_write =>
          Unwrap(gas_mixtures')[main.idx + 1] = from_vol(3)]_vars

\* C12: between initialization and shutdown, with the main thread between
\* calls and no grower task spawned, waiting or running, amt_gases is the
\* number of registered identifiers.
C12_ActiveCountsRegistered ==
    (Running /\ main.pc = "idle" /\ GrowersInFlight = 0 /\ CanObserve) =>
        amt_gases = Cardinality(RegisteredIds)

C12_Witness ==
    /\ Running /\ main.pc = "idle" /\ GrowersInFlight = 0 /\ CanObserve
    /\ ret.op = "unregistered"
    /\ Cardinality(RegisteredIds) = 1
    /\ Len(chan) >= 2

\* C13: the arena's length never decreases in a step other than the
\* shutdown's clear, which makes it 0: registrations, unregistrations,
\* grower tasks and accessor calls leave it as it is or longer.
C13_LengthMonotone ==
    [][/\ tot_gases' < tot_gases => shut_down_clear
       /\ shut_down_clear => tot_gases' = 0]_vars

C13_Witness ==
    /\ ret.op = "shut_down"
    /\ tot_gases = 0
    /\ field[2] > 0
    /\ \E w \in Workers : wk[w].res = "ok"

\* Worker w's call is at a gas_mixtures.get(h) whose handle is past the end
\* of the arena.
AtMissingHandle(w) ==
    \/ wk[w].pc = "first" /\ ~InRange(wk[w].src)
    \/ wk[w].pc = "first" /\ wk[w].op = "with_gas_mixtures_custom" /\ ~InRange(wk[w].arg)
    \/ wk[w].pc = "second" /\ ~InRange(wk[w].arg)

\* C14: an accessor call whose handle is past the end of the arena returns
\* the error in its next step, leaving every slot's content as it was and
\* holding no guard afterwards, the first slot's and the structural one
\* included; and no call is in its callback with a handle out of range.
C14_MissingHandle ==
    /\ [][\A w \in Workers :
            (AtMissingHandle(w) /\ wk'[w] # wk[w]) =>
                /\ wk'[w].pc = "idle" /\ wk'[w].res = "not_found"
                /\ wk'[w].held = <<>>
                /\ w \notin structReaders'
                /\ gas_mixtures' = gas_mixtures]_vars
    /\ [](\A w \in Workers :
            wk[w].pc \in {"callback", "f_first", "f_second"} =>
                InRange(wk[w].src) /\ InRange(wk[w].arg))

C14_Witness ==
    \E w \in Workers, v \in Workers :
        /\ wk[w].pc = "second" /\ ~InRange(wk[w].arg)
        /\ wk[w].held = <<[slot |-> 0, mode |-> "w"]>>
        /\ wk[v].pc = "idle" /\ wk[v].res = "not_found"

\* C15: a grower task in its send loop has no more handles left to publish
\* than the channel has room for, so none of its sends finds the channel
\* full while it holds the structural write lock.
C15_GrowerFitsChannel ==
    /\ grow.active => grow.end - grow.next <= ChanCap - Len(chan)
    /\ ~GrowerBlockedOnSend

\* A slow-path registration or a grower task is at GAS_MIXTURES.write().
WriterAtStructLock == main.pc = "slow" \/ waiting > 0

\* C16: a worker whose callback is running holds no guard of the structural
\* lock, so a slow-path registration or a grower task at
\* GAS_MIXTURES.write() is not kept waiting by a running callback.
C16_CallbackOutsideStructLock ==
    \A w \in Workers :
        wk[w].pc = "callback" =>
            /\ w \notin structReaders
            /\ WriterAtStructLock /\ structWriter = "none" => StructCanWrite

\* C17: a registration that found the channel empty appends one slot, built
\* from the volume, to the arena as it is when the write lock is taken,
\* binds the identifier to the length the arena had just before the append
\* (0 for the first registration after initialization) and leaves the
\* channel as it is, in its emptiness check as in its append.
C17_SlowPathAppendsOne ==
    [][/\ (register_mix_slow /\ main.isnum) =>
            /\ Unwrap(gas_mixtures') = Append(mixtures, from_vol(main.vol))
            /\ field'[main.id] = tot_gases
            /\ main.id \in UNION registered'
            /\ ret.op = "init" => field'[main.id] = 0
            /\ chan' = chan
       /\ (main.pc = "idle" /\ main'.pc = "slow") => chan' = chan]_vars

\* A slow-path registration has appended after a grower task published and
\* appended its batch between the emptiness check and the write lock.
C17_Witness ==
    /\ ret.op = "registered_slow"
    /\ \E i \in RegisteredIds :
          /\ field[i] = tot_gases - 1
          /\ Queued # {}
          /\ \A h \in Queued : h < field[i]
          /\ \A k \in 1..Len(chan) : mixtures[chan[k] + 1] = DefaultMixture

\* _shut_down_gases has returned and the pool has not been initialized again.
AfterShutdown == gas_mixtures # {} /\ registered = {}

\* C18: the shutdown clears the arena only once no grower task is
\* outstanding, drains the channel with the arena already empty and the
\* tracker still there, and sets the tracker to None last; once it has
\* returned the arena and the channel are empty, the tracker is None, no
\* grower task is left, and no later step appends a slot or queues a handle.
C18_ShutdownLeavesPoolEmpty ==
    /\ [][shut_down_clear => GrowersInFlight = 0 /\ registered' # {} /\ chan' = chan]_vars
    /\ [](main.pc = "drain" => tot_gases = 0 /\ registered # {})
    /\ [][shut_down_drain => AfterShutdown']_vars
    /\ [](AfterShutdown =>
            /\ tot_gases = 0 /\ chan = <<>>
            /\ GrowersInFlight = 0)
    /\ [][AfterShutdown => gas_mixtures' = gas_mixtures /\ chan' = chan]_vars

\* The shutdown has returned on a pool that had grown and had handles queued.
C18_Witness ==
    /\ AfterShutdown
    /\ ret.op = "shut_down"
    /\ \E i \in Ids : field[i] >= Batch

\* C19: the handle a fast-path registration received is below the arena's
\* length when it is looked up under the structural read guard, so
\* get(idx).unwrap() does not panic; and whenever no thread holds the
\* structural write lock, every queued handle is below the arena's length.
C19_QueuedBelowLength ==
    /\ main.pc # "panic"
    /\ (main.pc = "fast_read" /\ StructCanRead) => main.idx < tot_gases
    /\ structWriter = "none" => \A h \in Queued : h < tot_gases

\* The lookup of the fast path alone: the handle received is in the arena
\* by the time the structural read guard is there.
C19_PopResolves ==
    /\ main.pc # "panic"
    /\ (main.pc = "fast_read" /\ StructCanRead) => main.idx < tot_gases
    /\ (structWriter = "none" /\ main.pc # "drain") => \A h \in Queued : h < tot_gases

\* ------------------------------------------------ registrations that fail

\* The pool as under Spec, with host objects whose initial_volume may be no
\* number.
NextFail ==
    \/ initialize_gas_mixtures
    \/ \E i \in Ids, v \in Vols, isnum \in BOOLEAN : register_mix_begin(i, v, isnum)
    \/ register_mix_slow
    \/ register_mix_fast_read
    \/ register_mix_fast_write
    \/ grower_check
    \/ grower_lock
    \/ grower_send
    \/ grower_resize
    \/ \E i \in Ids : unregister_mix_begin(i)
    \/ unregister_mix_send
    \/ shut_down_clear
    \/ shut_down_drain

SpecFail == Init /\ [][NextFail]_vars

\* C20: a register_mix call that returns the error for a volume that is no
\* number leaves the arena and the tracker as they were and the channel
\* with what it held before the call: the slow path leaves it untouched and
\* the fast path has the handle it received back at the head of the queue.
C20_FailedRegisterChangesNothing ==
    [][(main.pc \in {"slow", "fast_write"} /\ ~main.isnum /\ main'.pc = "idle") =>
          /\ gas_mixtures' = gas_mixtures
          /\ registered' = registered
          /\ main.pc = "slow" => chan' = chan
          /\ main.pc = "fast_write" => chan' # <<>> /\ Head(chan') = main.idx]_vars

====
